---------------------------- MODULE Spec2Model ----------------------------
(***************************************************************************)
(* A model of node-tile38's client class Tile38 (src/tile38.js): the       *)
(* command construction of the facade methods, the submission of commands  *)
(* to the redis driver by sendCommand, and the interpretation of the       *)
(* driver's reply in sendCommand's callback.                               *)
(*                                                                         *)
(* JavaScript values are records [t, s, n, props]: t is the type tag, s    *)
(* the text of a string, n the value of a number (1/0 for a boolean), and  *)
(* props the own properties of an object or the elements of an array, in   *)
(* iteration order, each [key, val].  A raw reply of the driver is the     *)
(* sequence of the JSON tokens of its text.  The console.log lines that    *)
(* this.debug guards change no state and are left out.                     *)
(***************************************************************************)
EXTENDS Integers, Sequences, FiniteSets, TLC

VARIABLES
    constructed,  \* the constructor has run
    client,       \* this.client: the driver handle, [host, port]
    debug,        \* this.debug
    calls,        \* the facade calls made so far, in order, each with its future
    sent          \* the commands handed to client.send_command, in order

vars == <<constructed, client, debug, calls, sent>>

(***************************************************************************)
(* Bounds of the model.                                                    *)
(***************************************************************************)
\* facade calls made on the client, besides the constructor's OUTPUT
MaxCalls == 2
\* entries of a field map
MaxFields == 2
\* elements of an array passed as the object of set()
MaxObjLen == 5

\* the default port of the constructor's options
DefaultPort == 9851

(***************************************************************************)
(* JavaScript values.                                                      *)
(***************************************************************************)
Undefined == [t |-> "undefined", s |-> "", n |-> 0, props |-> <<>>]
Null      == [t |-> "null", s |-> "", n |-> 0, props |-> <<>>]
Str(x)    == [t |-> "string", s |-> x, n |-> 0, props |-> <<>>]
Num(x)    == [t |-> "number", s |-> "", n |-> x, props |-> <<>>]
Bool(x)   == [t |-> "boolean", s |-> "", n |-> IF x THEN 1 ELSE 0, props |-> <<>>]
Obj(ps)   == [t |-> "object", s |-> "", n |-> 0, props |-> ps]
Arr(xs)   == [t |-> "array", s |-> "", n |-> 0,
              props |-> [i \in 1..Len(xs) |-> [key |-> ToString(i - 1), val |-> xs[i]]]]
Prop(k, v) == [key |-> k, val |-> v]

\* the elements of an array, in order
Elements(a) == [i \in 1..Len(a.props) |-> a.props[i].val]

\* Array.isArray(v)
IsArray(v) == v.t = "array"

\* ToBoolean: the truthiness the conditions `!x` and `if (x)` test
Truthy(v) ==
    CASE v.t = "undefined" -> FALSE
      [] v.t = "null"      -> FALSE
      [] v.t = "boolean"   -> v.n = 1
      [] v.t = "number"    -> v.n # 0
      [] v.t = "string"    -> v.s # ""
      [] OTHER             -> TRUE

HasProp(o, k) == \E i \in 1..Len(o.props) : o.props[i].key = k

\* o[k] of a value that is neither null nor undefined: undefined when absent
GetProp(o, k) ==
    IF HasProp(o, k)
    THEN o.props[CHOOSE i \in 1..Len(o.props) : o.props[i].key = k].val
    ELSE Undefined

\* o[k] = v: an existing key keeps its place, a new key goes last
SetProp(o, k, v) ==
    IF HasProp(o, k)
    THEN [o EXCEPT !.props = [i \in 1..Len(o.props) |->
                                 IF o.props[i].key = k THEN Prop(k, v) ELSE o.props[i]]]
    ELSE [o EXCEPT !.props = Append(o.props, Prop(k, v))]

\* delete o[k]
DeleteProp(o, k) ==
    [o EXCEPT !.props = SelectSeq(o.props, LAMBDA p : p.key # k)]

\* a parameter with a default value: the default replaces undefined only
Default(v, d) == IF v.t = "undefined" THEN d ELSE v

\* x > 0 on the values the model passes as expire (numbers, booleans, null, undefined)
GreaterThanZero(v) ==
    CASE v.t = "number"  -> v.n > 0
      [] v.t = "boolean" -> v.n > 0
      [] OTHER           -> FALSE

\* x == 1 (loose equality)
LooseEqualsOne(v) ==
    CASE v.t = "number"  -> v.n = 1
      [] v.t = "boolean" -> v.n = 1
      [] v.t = "string"  -> v.s = "1"
      [] OTHER           -> FALSE

\* x == 'HASH' and x != null (loose equality with a string, with null)
LooseEqualsStr(v, x) == v.t = "string" /\ v.s = x
LooseEqualsNull(v) == v.t \in {"null", "undefined"}

(***************************************************************************)
(* JSON.  A text is the sequence of its tokens [t, s, n]: the punctuation  *)
(* marks, "str" (a string literal, s its text), "num" (a number, n its     *)
(* value), the literals true, false and null, and "bad" (text that is no   *)
(* JSON token, such as a bare OK).                                         *)
(***************************************************************************)
Tok(x)   == [t |-> x, s |-> "", n |-> 0]
TStr(x)  == [t |-> "str", s |-> x, n |-> 0]
TNum(x)  == [t |-> "num", s |-> "", n |-> x]
TBad(x)  == [t |-> "bad", s |-> x, n |-> 0]

ParseFail == [ok |-> FALSE, val |-> Undefined, rest |-> <<>>]
Parsed(v, rest) == [ok |-> TRUE, val |-> v, rest |-> rest]

RECURSIVE ParseValue(_), ParseMembers(_, _), ParseElements(_, _)

\* one JSON value at the head of ts
ParseValue(ts) ==
    IF ts = <<>> THEN ParseFail
    ELSE LET h == Head(ts)
             r == Tail(ts)
         IN CASE h.t = "str"   -> Parsed(Str(h.s), r)
              [] h.t = "num"   -> Parsed(Num(h.n), r)
              [] h.t = "true"  -> Parsed(Bool(TRUE), r)
              [] h.t = "false" -> Parsed(Bool(FALSE), r)
              [] h.t = "null"  -> Parsed(Null, r)
              [] h.t = "{"     -> IF r # <<>> /\ Head(r).t = "}"
                                  THEN Parsed(Obj(<<>>), Tail(r))
                                  ELSE ParseMembers(r, Obj(<<>>))
              [] h.t = "["     -> IF r # <<>> /\ Head(r).t = "]"
                                  THEN Parsed(Arr(<<>>), Tail(r))
                                  ELSE ParseElements(r, <<>>)
              [] OTHER         -> ParseFail

\* the members of an object after its "{" or a ",": a later duplicate key wins
ParseMembers(ts, o) ==
    IF Len(ts) < 2 \/ ts[1].t # "str" \/ ts[2].t # ":" THEN ParseFail
    ELSE LET v == ParseValue(SubSeq(ts, 3, Len(ts)))
         IN IF ~v.ok \/ v.rest = <<>> THEN ParseFail
            ELSE LET o2 == SetProp(o, ts[1].s, v.val)
                     h  == Head(v.rest)
                 IN CASE h.t = "}" -> Parsed(o2, Tail(v.rest))
                      [] h.t = "," -> ParseMembers(Tail(v.rest), o2)
                      [] OTHER     -> ParseFail

\* the elements of an array after its "[" or a ","
ParseElements(ts, xs) ==
    LET v == ParseValue(ts)
    IN IF ~v.ok \/ v.rest = <<>> THEN ParseFail
       ELSE LET h == Head(v.rest)
            IN CASE h.t = "]" -> Parsed(Arr(Append(xs, v.val)), Tail(v.rest))
                 [] h.t = "," -> ParseElements(Tail(v.rest), Append(xs, v.val))
                 [] OTHER     -> ParseFail

\* JSON.parse(text): [threw, val]; it throws unless the whole text is one value
JSONparse(ts) ==
    LET r == ParseValue(ts)
    IN IF r.ok /\ r.rest = <<>>
       THEN [threw |-> FALSE, val |-> r.val]
       ELSE [threw |-> TRUE, val |-> Undefined]

RECURSIVE StringifyText(_), StringifyMembers(_, _), StringifyElements(_, _)

\* the text JSON.stringify gives for a value other than undefined
StringifyText(v) ==
    CASE v.t = "string"  -> "\"" \o v.s \o "\""
      [] v.t = "number"  -> ToString(v.n)
      [] v.t = "boolean" -> IF v.n = 1 THEN "true" ELSE "false"
      [] v.t = "object"  -> "{" \o StringifyMembers(v.props, TRUE) \o "}"
      [] v.t = "array"   -> "[" \o StringifyElements(v.props, TRUE) \o "]"
      [] OTHER           -> "null"

\* the members of an object; a member whose value is undefined is left out
StringifyMembers(ps, first) ==
    IF ps = <<>> THEN ""
    ELSE IF Head(ps).val.t = "undefined" THEN StringifyMembers(Tail(ps), first)
    ELSE (IF first THEN "" ELSE ",")
         \o "\"" \o Head(ps).key \o "\":" \o StringifyText(Head(ps).val)
         \o StringifyMembers(Tail(ps), FALSE)

\* the elements of an array
StringifyElements(ps, first) ==
    IF ps = <<>> THEN ""
    ELSE (IF first THEN "" ELSE ",")
         \o StringifyText(Head(ps).val)
         \o StringifyElements(Tail(ps), FALSE)

\* JSON.stringify(v): undefined for undefined, a string otherwise
JSONstringify(v) ==
    IF v.t = "undefined" THEN Undefined ELSE Str(StringifyText(v))

(***************************************************************************)
(* sendCommand: the submission.  A facade method ends in one of two ways:  *)
(* it throws before it reaches sendCommand, or it returns sendCommand's    *)
(* promise, whose executor has handed one command to client.send_command.  *)
(***************************************************************************)
Throws(msg) ==
    [threw |-> TRUE, error |-> msg, cmd |-> "", returnProp |-> Undefined, args |-> <<>>]

\* args made an array if it is not one already
NormalizeArgs(args) ==
    IF ~Truthy(args) THEN <<>>
    ELSE IF ~IsArray(args) THEN <<args>>
    ELSE Elements(args)

sendCommand(cmd, returnProp, args) ==
    [threw |-> FALSE, error |-> "", cmd |-> cmd, returnProp |-> returnProp,
     args |-> NormalizeArgs(args)]

(***************************************************************************)
(* The facade methods, each the sendCommand call it makes.  A parameter    *)
(* the caller leaves out is Undefined.                                     *)
(***************************************************************************)
ping == sendCommand("PING", Str("ping"), Undefined)

quit == sendCommand("QUIT", Undefined, Undefined)

server == sendCommand("SERVER", Str("stats"), Undefined)

gc == sendCommand("GC", Str("ok"), Undefined)

configGet(prop) == sendCommand("CONFIG GET", Str("properties"), prop)

configSet(prop, value) == sendCommand("CONFIG SET", Str("ok"), Arr(<<prop, value>>))

configRewrite == sendCommand("CONFIG REWRITE", Str("ok"), Undefined)

flushdb == sendCommand("FLUSHDB", Str("ok"), Undefined)

readOnly(val) ==
    sendCommand("READONLY", Str("ok"), IF Truthy(val) THEN Str("yes") ELSE Str("no"))

bounds(key) == sendCommand("BOUNDS", Str("bounds"), key)

expire(key, id, seconds) == sendCommand("EXPIRE", Str("ok"), Arr(<<key, id, seconds>>))

ttl(key, id) == sendCommand("TTL", Str("ttl"), Arr(<<key, id>>))

persist(key, id) == sendCommand("PERSIST", Str("ok"), Arr(<<key, id>>))

keys(pattern) == sendCommand("KEYS", Str("keys"), pattern)

\* for (let f in fields) cmd = cmd.concat(['FIELD', f, fields[f]])
RECURSIVE FieldTokens(_)
FieldTokens(ps) ==
    IF ps = <<>> THEN <<>>
    ELSE <<Str("FIELD"), Str(Head(ps).key), Head(ps).val>> \o FieldTokens(Tail(ps))

\* a variant that tests expire >= 0
ExpireTokensNonNegative(opts) ==
    LET e == GetProp(opts, "expire")
    IN IF e.t = "number" /\ e.n >= 0 THEN <<Str("EX"), e>> ELSE <<>>

\* if (expire > 0) push 'EX', expire
ExpireTokens(opts) ==
    LET e == GetProp(opts, "expire")
    IN IF GreaterThanZero(e) THEN <<Str("EX"), e>> ELSE <<>>

\* if (opts['onlyIfNotExists']) push 'NX'; if (opts['onlyIfExists']) push 'XX'
FlagTokens(opts) ==
    (IF Truthy(GetProp(opts, "onlyIfNotExists")) THEN <<Str("NX")>> ELSE <<>>)
    \o (IF Truthy(GetProp(opts, "onlyIfExists")) THEN <<Str("XX")>> ELSE <<>>)

\* the test that sends an array to the POINT branch
IsPointLength(n) == n < 4

\* the tokens of the object: [threw, toks]
LocationTokens(obj, opts) ==
    IF IsArray(obj) THEN
        IF IsPointLength(Len(obj.props))
        THEN [threw |-> FALSE, toks |-> <<Str("POINT")>> \o Elements(obj)]
        ELSE IF Len(obj.props) = 4
        THEN [threw |-> FALSE, toks |-> <<Str("BOUNDS")>> \o Elements(obj)]
        ELSE [threw |-> TRUE, toks |-> <<>>]
    ELSE IF obj.t = "string" THEN
        IF LooseEqualsStr(GetProp(opts, "type"), "string")
        THEN [threw |-> FALSE, toks |-> <<Str("STRING"), Str("\"" \o obj.s \o "\"")>>]
        ELSE [threw |-> FALSE, toks |-> <<Str("HASH"), obj>>]
    ELSE [threw |-> FALSE, toks |-> <<JSONstringify(obj)>>]

set(key, id, obj, fields0, opts0) ==
    LET fields == Default(fields0, Obj(<<>>))
        opts   == Default(opts0, Obj(<<>>))
        cmd    == <<key, id>> \o FieldTokens(fields.props)
                  \o ExpireTokens(opts) \o FlagTokens(opts)
        loc    == LocationTokens(obj, opts)
    IN IF loc.threw
       THEN Throws("incorrect number of values")
       ELSE sendCommand("SET", Str("ok"), Arr(cmd \o loc.toks))

fset(key, id, field, value) == sendCommand("FSET", Str("ok"), Arr(<<key, id, field, value>>))

del(key, id) == sendCommand("DEL", Str("ok"), Arr(<<key, id>>))

pdel(key, pattern) == sendCommand("PDEL", Str("ok"), Arr(<<key, pattern>>))

get(key, id, opts0) ==
    LET opts       == Default(opts0, Obj(<<>>))
        withfields == Default(GetProp(opts, "withfields"), Bool(FALSE))
        type       == Default(GetProp(opts, "type"), Null)
        precision  == Default(GetProp(opts, "precision"), Null)
        params     == <<key, id>>
                      \o (IF Truthy(withfields) THEN <<Str("WITHFIELDS")>> ELSE <<>>)
                      \o (IF LooseEqualsStr(type, "HASH")
                          THEN <<Str("HASH")>>
                               \o (IF ~LooseEqualsNull(precision) THEN <<precision>> ELSE <<>>)
                          ELSE IF ~LooseEqualsNull(type) THEN <<type>> ELSE <<>>)
    IN sendCommand("GET", Num(1), Arr(params))

\* opts = {} by default; opts.type = 'POINT'; get(key, id, opts)
getPoint(key, id, opts0) ==
    get(key, id, SetProp(Default(opts0, Obj(<<>>)), "type", Str("POINT")))

getBounds(key, id, opts0) ==
    get(key, id, SetProp(Default(opts0, Obj(<<>>)), "type", Str("BOUNDS")))

\* opts.type = 'HASH' is set on opts, and arguments[2] is what get() is given:
\* the caller's object, now with its type set, or undefined when it was left out
getHash(key, id, opts0) ==
    get(key, id, IF opts0.t = "undefined" THEN Undefined
                 ELSE SetProp(opts0, "type", Str("HASH")))

drop(key) == sendCommand("DROP", Str("ok"), key)

stats(ks) == sendCommand("STATS", Str("stats"), Arr(ks))

jset(key, id, jKey, jVal) == sendCommand("JSET", Str("ok"), Arr(<<key, id, jKey, jVal>>))

jget(key, id, other) == sendCommand("JGET", Str("value"), Arr(<<key, id>> \o other))

jdel(key, id, jKey) == sendCommand("JDEL", Str("ok"), Arr(<<key, id, jKey>>))

scan(key) == sendCommand("SCAN", Num(1), key)

(***************************************************************************)
(* sendCommand: the driver's callback (err, result).  A settlement is one  *)
(* call of resolve or reject; the promise takes the first.                 *)
(***************************************************************************)
Resolve(kind, val, raw) ==
    [how |-> "resolved", kind |-> kind, text |-> "", val |-> val, raw |-> raw]

Reject(kind, text, val, raw) ==
    [how |-> "rejected", kind |-> kind, text |-> text, val |-> val, raw |-> raw]

Completes(settle) == [threw |-> FALSE, settle |-> settle]
ThrowsAfter(settle) == [threw |-> TRUE, settle |-> settle]

\* a variant that logs the driver's error and settles nothing
TransportFailureSwallowed(err) == <<>>

\* the driver's error passed to reject
TransportFailure(err) == <<Reject("TransportError", "", err, <<>>)>>

\* the raw response, for a call without returnProp
RawProjection(result) == Completes(<<Resolve("Raw", Undefined, result)>>)

\* a variant that rejects with res.err whatever it is
ServerFailureAlwaysErr(res, result) ==
    Completes(<<Reject("ServerError", "", GetProp(res, "err"), <<>>)>>)

\* !res.ok: reject with res.err, or with the raw reply when res.err is falsy
ServerFailure(res, result) ==
    IF Truthy(GetProp(res, "err"))
    THEN Completes(<<Reject("ServerError", "", GetProp(res, "err"), <<>>)>>)
    ELSE Completes(<<Reject("ServerError", "unexpected response: ", Undefined, result)>>)

\* a variant that removes 'ok' only
ProjectAllKeepsElapsed(res) ==
    Completes(<<Resolve("Value", DeleteProp(res, "ok"), <<>>)>>)

\* returnProp == 1: the entire response minus 'ok' and 'elapsed'
ProjectAll(res) ==
    Completes(<<Resolve("Value", DeleteProp(DeleteProp(res, "ok"), "elapsed"), <<>>)>>)

\* res[returnProp]
ProjectProperty(res, returnProp) ==
    Completes(<<Resolve("Value", GetProp(res, returnProp.s), <<>>)>>)

\* a variant that tests returnProp === undefined
WantsRawOnlyUndefined(returnProp) == returnProp.t = "undefined"

\* the test that skips the parse
WantsRaw(returnProp) == ~Truthy(returnProp)

\* the body of the try block: [threw, settle]
TryBody(returnProp, result) ==
    IF WantsRaw(returnProp) THEN RawProjection(result)
    ELSE LET p == JSONparse(result)
         IN IF p.threw THEN ThrowsAfter(<<>>)
            ELSE LET res == p.val
                 IN IF res.t \in {"null", "undefined"} THEN ThrowsAfter(<<>>)
                    ELSE IF ~Truthy(GetProp(res, "ok")) THEN ServerFailure(res, result)
                    ELSE IF LooseEqualsOne(returnProp) THEN ProjectAll(res)
                    ELSE ProjectProperty(res, returnProp)

\* a variant without the catch block: the exception leaves the callback
CatchBlockRethrows(body, result) == [settle |-> body.settle, escaped |-> TRUE]

\* the catch block: [settle, escaped]
CatchBlock(body, result) ==
    [settle  |-> body.settle
                 \o <<Reject("MalformedResponse", "unable to parse response: ",
                             Undefined, result)>>,
     escaped |-> FALSE]

\* the callback given to send_command: [settle, escaped]
OnReply(returnProp, err, result) ==
    IF Truthy(err) THEN [settle |-> TransportFailure(err), escaped |-> FALSE]
    ELSE LET body == TryBody(returnProp, result)
         IN IF body.threw THEN CatchBlock(body, result)
            ELSE [settle |-> body.settle, escaped |-> FALSE]

(***************************************************************************)
(* The state machine.  A call is one facade call (or the constructor's     *)
(* sendCommand): what was called, what it submitted, what the driver's     *)
(* callback was given, and its promise.                                    *)
(***************************************************************************)
NoSettlement == [how |-> "pending", kind |-> "", text |-> "", val |-> Undefined, raw |-> <<>>]

NewCall(method, params, r) ==
    [method     |-> method,
     params     |-> params,
     returned   |-> IF r.threw THEN "threw" ELSE "promise",
     error      |-> r.error,
     cmd        |-> r.cmd,
     args       |-> r.args,
     returnProp |-> r.returnProp,
     delivered  |-> FALSE,
     cbErr      |-> Null,
     cbResult   |-> <<>>,
     outcome    |-> NoSettlement,
     settles    |-> 0,
     escaped    |-> FALSE]

Submission(c, r) == [call |-> c, cmd |-> r.cmd, args |-> r.args]

\* a variant of the constructor that does not switch the output
NoConstructorCommands == <<>>

\* the sendCommand calls the constructor makes
ConstructorCommands == <<sendCommand("OUTPUT", Null, Str("json"))>>

Init ==
    /\ constructed = FALSE
    /\ client = [port |-> 0, host |-> ""]
    /\ debug = FALSE
    /\ calls = <<>>
    /\ sent = <<>>

\* new Tile38({port, host, debug})
Construct(port, host, dbg) ==
    /\ ~constructed
    /\ constructed' = TRUE
    /\ client' = [port |-> port, host |-> host]
    /\ calls' = [i \in 1..Len(ConstructorCommands) |->
                    NewCall("constructor", <<>>, ConstructorCommands[i])]
    /\ sent' = [i \in 1..Len(ConstructorCommands) |-> Submission(i, ConstructorCommands[i])]
    /\ debug' = dbg

\* the caller may make another call: fewer than MaxCalls were made
Room == Len(calls) < Len(ConstructorCommands) + MaxCalls

\* the caller has made no call on the client yet
Fresh == Len(calls) = Len(ConstructorCommands)

\* a facade method called with params, when the caller `may`; r is what the
\* method does with them
Invoke(method, params, r, may) ==
    /\ constructed
    /\ may
    /\ calls' = Append(calls, NewCall(method, params, r))
    /\ sent' = IF r.threw THEN sent ELSE Append(sent, Submission(Len(calls) + 1, r))
    /\ UNCHANGED <<constructed, client, debug>>

\* a variant that keeps returnProp on the client: the latest call's
LastReturnProp(c) == calls[Len(calls)].returnProp

\* the returnProp the callback of call c reads: the one its closure captured
CapturedReturnProp(c) == calls[c].returnProp

\* the driver calls back the callback of call c, once
Callback(c, err, result) ==
    /\ c \in 1..Len(calls)
    /\ calls[c].returned = "promise"
    /\ ~calls[c].delivered
    /\ LET r == OnReply(CapturedReturnProp(c), err, result)
       IN calls' = [calls EXCEPT ![c] =
                      [@ EXCEPT !.delivered = TRUE,
                                !.cbErr = err,
                                !.cbResult = result,
                                !.outcome = IF r.settle = <<>> THEN NoSettlement
                                            ELSE Head(r.settle),
                                !.settles = Len(r.settle),
                                !.escaped = r.escaped]]
    /\ UNCHANGED <<constructed, client, debug, sent>>

(***************************************************************************)
(* The arguments the callers pass and the replies the driver delivers.     *)
(***************************************************************************)
Key == Str("fleet")
Id  == Str("truck1")

Coord(i) == IF i % 2 = 0 THEN 0 - (110 + i) ELSE 30 + i

\* the arrays of 0..MaxObjLen coordinates
ObjArrays == {Arr([i \in 1..n |-> Num(Coord(i))]) : n \in 0..MaxObjLen}

GeoJson ==
    Obj(<<Prop("type", Str("Point")), Prop("coordinates", Arr(<<Num(33), Num(0 - 112)>>))>>)

\* a geohash (or string value), a GeoJSON object, and the parameter left out
ObjOthers == {Str("9tbnwg"), GeoJson, Undefined}

FieldName(i) == "f" \o ToString(i)

\* the field maps of 0..MaxFields entries, in ascending and in descending order of
\* insertion, and the parameter left out
FieldMaps ==
    {Undefined}
    \cup {Obj([i \in 1..n |-> Prop(FieldName(i), Num(10 * i))]) : n \in 0..MaxFields}
    \cup {Obj([i \in 1..n |-> Prop(FieldName(n + 1 - i), Num(10 * (n + 1 - i)))]) :
            n \in 0..MaxFields}

\* o with key k set, unless the caller leaves k out
With(o, k, v) == IF v.t = "undefined" THEN o ELSE SetProp(o, k, v)

ExpireValues == {Undefined, Num(0 - 1), Num(0), Num(120)}
FlagValues == {Undefined, Bool(TRUE), Bool(FALSE)}

\* the option bags of set(), and the parameter left out
SetOptions ==
    {Undefined}
    \cup {With(With(With(With(Obj(<<>>), "type", ty), "expire", e),
                     "onlyIfNotExists", nx), "onlyIfExists", xx) :
            ty \in {Undefined, Str("string")},
            e \in ExpireValues, nx \in FlagValues, xx \in FlagValues}

\* the options of get(), and the parameter left out
GetOptions ==
    {Undefined}
    \cup {With(With(With(Obj(<<>>), "withfields", w), "type", ty), "precision", pr) :
            w \in {Undefined, Bool(TRUE)},
            ty \in {Undefined, Str("POINT"), Str("BOUNDS"), Str("HASH"), Str("OBJECT")},
            pr \in {Undefined, Num(6)}}

\* what the driver passes as err: null, or its error
TransportErrors == {Obj(<<Prop("code", Str("ECONNREFUSED"))>>)}

RECURSIVE TMembers(_)
TMembers(ms) ==
    IF ms = <<>> THEN <<>>
    ELSE <<TStr(ms[1][1]), Tok(":")>> \o ms[1][2]
         \o (IF Len(ms) > 1 THEN <<Tok(",")>> ELSE <<>>) \o TMembers(Tail(ms))

\* the tokens of the object text with these members, each <<key, tokens of the value>>
TObj(ms) == <<Tok("{")>> \o TMembers(ms) \o <<Tok("}")>>

TTrue  == <<Tok("true")>>
TFalse == <<Tok("false")>>
TNull  == <<Tok("null")>>
TS(x)  == <<TStr(x)>>
TN(x)  == <<TNum(x)>>

ReplyPong     == TObj(<< <<"ok", TTrue>>, <<"elapsed", TS("1ms")>>, <<"ping", TS("pong")>> >>)
ReplyOk       == TObj(<< <<"ok", TTrue>>, <<"elapsed", TS("1ms")>> >>)
ReplyObject   ==
    TObj(<< <<"ok", TTrue>>,
            <<"object", TObj(<< <<"type", TS("Point")>>,
                                <<"coordinates", <<Tok("["), TNum(33), Tok(","),
                                                   TNum(0 - 112), Tok("]")>> >> >>)>>,
            <<"fields", TObj(<< <<"speed", TN(10)>> >>)>>,
            <<"elapsed", TS("2ms")>> >>)
ReplyNoElapsed == TObj(<< <<"ok", TTrue>>, <<"ping", TS("pong")>> >>)
ReplyOkOne    == TObj(<< <<"ok", TN(1)>>, <<"elapsed", TN(0)>>, <<"ping", TNull>> >>)
ReplyErr      == TObj(<< <<"ok", TFalse>>, <<"err", TS("invalid command")>> >>)
ReplyNoErr    == TObj(<< <<"ok", TFalse>>, <<"elapsed", TS("1ms")>> >>)
ReplyEmptyErr == TObj(<< <<"ok", TFalse>>, <<"err", TS("")>> >>)
ReplyNoOk     == TObj(<< <<"err", TS("id not found")>> >>)
ReplyOkZero   == TObj(<< <<"ok", TN(0)>>, <<"err", TS("zero")>> >>)
ReplyOkTwice  == TObj(<< <<"ok", TTrue>>, <<"ok", TFalse>>, <<"err", TS("twice")>> >>)
ReplyEmptyObj == TObj(<<>>)
ReplyNull     == TNull
ReplyNumber   == TN(5)
ReplyString   == TS("pong")
ReplyArray    == <<Tok("["), TNum(1), Tok("]")>>
ReplyBare     == <<TBad("OK")>>
ReplyEmpty    == <<>>
ReplyCut      == <<Tok("{"), TStr("ok"), Tok(":"), Tok("true")>>
ReplyTrailing == ReplyOk \o <<Tok("}")>>

\* the replies the interpretation is checked on
Replies ==
    {ReplyPong, ReplyOk, ReplyObject, ReplyNoElapsed, ReplyOkOne, ReplyErr, ReplyNoErr,
     ReplyEmptyErr, ReplyNoOk, ReplyOkZero, ReplyOkTwice, ReplyEmptyObj, ReplyNull,
     ReplyNumber, ReplyString, ReplyArray, ReplyBare, ReplyEmpty, ReplyCut, ReplyTrailing}

\* the replies of the interleaving specification
FewReplies == {ReplyPong, ReplyErr, ReplyBare}

(***************************************************************************)
(* The facade calls as actions, made when the caller `may`.                 *)
(***************************************************************************)
Ping(may) == Invoke("ping", <<>>, ping, may)
Quit(may) == Invoke("quit", <<>>, quit, may)
Server(may) == Invoke("server", <<>>, server, may)
Gc(may) == Invoke("gc", <<>>, gc, may)
ConfigGet(may) ==
    \E prop \in {Str("maxmemory"), Undefined} :
        Invoke("configGet", <<prop>>, configGet(prop), may)
ConfigSet(may) ==
    Invoke("configSet", <<Str("maxmemory"), Str("1gb")>>,
           configSet(Str("maxmemory"), Str("1gb")), may)
ConfigRewrite(may) == Invoke("configRewrite", <<>>, configRewrite, may)
Flushdb(may) == Invoke("flushdb", <<>>, flushdb, may)
ReadOnly(may) ==
    \E val \in {Bool(TRUE), Bool(FALSE), Undefined} :
        Invoke("readOnly", <<val>>, readOnly(val), may)
Bounds(may) == Invoke("bounds", <<Key>>, bounds(Key), may)
Expire(may) ==
    \E seconds \in {Num(0), Num(120)} :
        Invoke("expire", <<Key, Id, seconds>>, expire(Key, Id, seconds), may)
Ttl(may) == Invoke("ttl", <<Key, Id>>, ttl(Key, Id), may)
Persist(may) == Invoke("persist", <<Key, Id>>, persist(Key, Id), may)
Keys(may) ==
    \E pattern \in {Str("*"), Str("")} : Invoke("keys", <<pattern>>, keys(pattern), may)
Set(objs, fieldMaps, options, may) ==
    \E obj \in objs, fields \in fieldMaps, opts \in options :
        Invoke("set", <<Key, Id, obj, fields, opts>>, set(Key, Id, obj, fields, opts), may)
Fset(may) ==
    Invoke("fset", <<Key, Id, Str("speed"), Num(10)>>,
           fset(Key, Id, Str("speed"), Num(10)), may)
Del(may) == Invoke("del", <<Key, Id>>, del(Key, Id), may)
Pdel(may) == Invoke("pdel", <<Key, Str("truck*")>>, pdel(Key, Str("truck*")), may)
Get(options, may) ==
    \E opts \in options : Invoke("get", <<Key, Id, opts>>, get(Key, Id, opts), may)
GetPoint(options, may) ==
    \E opts \in options : Invoke("getPoint", <<Key, Id, opts>>, getPoint(Key, Id, opts), may)
GetBounds(options, may) ==
    \E opts \in options : Invoke("getBounds", <<Key, Id, opts>>, getBounds(Key, Id, opts), may)
GetHash(options, may) ==
    \E opts \in options : Invoke("getHash", <<Key, Id, opts>>, getHash(Key, Id, opts), may)
Drop(may) == Invoke("drop", <<Key>>, drop(Key), may)
Stats(may) ==
    \E ks \in {<<>>, <<Key>>, <<Key, Str("props")>>} : Invoke("stats", ks, stats(ks), may)
Jset(may) ==
    Invoke("jset", <<Key, Id, Str("name"), Str("Tom")>>,
           jset(Key, Id, Str("name"), Str("Tom")), may)
Jget(may) ==
    \E other \in {<<>>, <<Str("name")>>, <<Str("name"), Str("RAW")>>} :
        Invoke("jget", <<Key, Id>> \o other, jget(Key, Id, other), may)
Jdel(may) ==
    Invoke("jdel", <<Key, Id, Str("name")>>, jdel(Key, Id, Str("name")), may)
Scan(may) ==
    \E key \in {Key, Str("")} : Invoke("scan", <<key>>, scan(key), may)

\* the constructor, with the default port and host
New == \E dbg \in BOOLEAN : Construct(DefaultPort, "localhost", dbg)

\* the driver answers a pending command with a reply
Reply(replies) ==
    \E c \in 1..Len(calls), result \in replies : Callback(c, Null, result)

\* the driver fails a pending command
Fail ==
    \E c \in 1..Len(calls), err \in TransportErrors : Callback(c, err, <<>>)

(***************************************************************************)
(* Spec: several calls outstanding at once, answered in any order.         *)
(***************************************************************************)
Next ==
    \/ New
    \/ Ping(Room)
    \/ Quit(Room)
    \/ Set({Arr(<<Num(33), Num(0 - 112)>>), Arr([i \in 1..5 |-> Num(Coord(i))])},
           {Undefined}, {Undefined}, Room)
    \/ Get({Undefined}, Room)
    \/ Reply(FewReplies)
    \/ Fail

Spec == Init /\ [][Next]_vars

(***************************************************************************)
(* SpecEncode: the command each facade method builds, over its arguments,  *)
(* as the first call on a new client: a method reads nothing but them.     *)
(***************************************************************************)
NextEncode ==
    \/ New
    \/ Ping(Fresh) \/ Quit(Fresh) \/ Server(Fresh)
    \/ Gc(Fresh) \/ ConfigGet(Fresh) \/ ConfigSet(Fresh)
    \/ ConfigRewrite(Fresh) \/ Flushdb(Fresh) \/ ReadOnly(Fresh)
    \/ Bounds(Fresh) \/ Expire(Fresh) \/ Ttl(Fresh)
    \/ Persist(Fresh) \/ Keys(Fresh)
    \/ Set(ObjArrays \cup ObjOthers, FieldMaps, SetOptions, Fresh)
    \/ Fset(Fresh) \/ Del(Fresh) \/ Pdel(Fresh)
    \/ Get(GetOptions, Fresh) \/ GetPoint(GetOptions, Fresh)
    \/ GetBounds(GetOptions, Fresh) \/ GetHash(GetOptions, Fresh)
    \/ Drop(Fresh) \/ Stats(Fresh) \/ Jset(Fresh)
    \/ Jget(Fresh) \/ Jdel(Fresh) \/ Scan(Fresh)

SpecEncode == Init /\ [][NextEncode]_vars

(***************************************************************************)
(* SpecReply: the interpretation of the driver's reply, over the replies   *)
(* and the three kinds of returnProp (none, a property name, 1), for the   *)
(* constructor's command and the first call on a new client.               *)
(***************************************************************************)
NextReply ==
    \/ New
    \/ Quit(Fresh)
    \/ Ping(Fresh)
    \/ Gc(Fresh)
    \/ Get({Undefined}, Fresh)
    \/ Scan(Fresh)
    \/ Reply(Replies)
    \/ Fail

SpecReply == Init /\ [][NextReply]_vars

(***************************************************************************)
(* The claims.                                                             *)
(***************************************************************************)
CallIds == 1..Len(calls)
CallsOf(methods) == {c \in CallIds : calls[c].method \in methods}
SubmissionsOf(c) == {i \in 1..Len(sent) : sent[i].call = c}
Suffix(xs, n) == SubSeq(xs, Len(xs) - n + 1, Len(xs))

\* call c returned a promise and submitted exactly one command, its own
SubmittedOnce(c) ==
    /\ calls[c].returned = "promise"
    /\ Cardinality(SubmissionsOf(c)) = 1
    /\ \A i \in SubmissionsOf(c) : sent[i].cmd = calls[c].cmd /\ sent[i].args = calls[c].args

\* call c threw "incorrect number of values" and submitted nothing
FailedInvalidArgument(c) ==
    /\ calls[c].returned = "threw"
    /\ calls[c].error = "incorrect number of values"
    /\ SubmissionsOf(c) = {}

\* C1: a set() whose object is an array of 1, 2 or 3 coordinates submits a SET
\* ending with POINT and the coordinates; of 4, ending with BOUNDS and the
\* coordinates; of 0 or more than 4, fails with InvalidArgument and submits nothing.
C1_ArrayLengthDecidesEncoding ==
    \A c \in CallsOf({"set"}) :
        LET obj == calls[c].params[3]
            n   == Len(obj.props)
        IN IsArray(obj) =>
            /\ n \in 1..3 =>
                /\ SubmittedOnce(c)
                /\ calls[c].cmd = "SET"
                /\ Suffix(calls[c].args, n + 1) = <<Str("POINT")>> \o Elements(obj)
            /\ n = 4 =>
                /\ SubmittedOnce(c)
                /\ calls[c].cmd = "SET"
                /\ Suffix(calls[c].args, 5) = <<Str("BOUNDS")>> \o Elements(obj)
            /\ (n = 0 \/ n > 4) => FailedInvalidArgument(c)

\* the field map and the option bag call c was given, an omitted one being empty
GivenFields(c) == IF calls[c].params[4].t = "undefined" THEN <<>> ELSE calls[c].params[4].props
GivenOption(c, k) ==
    IF calls[c].params[5].t = "undefined" THEN Undefined ELSE GetProp(calls[c].params[5], k)

\* the number of tokens that encode the object: the type token and its values
LocationLength(obj) ==
    CASE obj.t = "array"  -> Len(obj.props) + 1
      [] obj.t = "string" -> 2
      [] OTHER            -> 1

\* C2: the arguments set() submits are key, id, one FIELD name value triplet per
\* entry of the field map in its iteration order, EX expire iff expire > 0, NX iff
\* onlyIfNotExists, XX iff onlyIfExists, and the location tokens last.
C2_SetArgumentOrder ==
    \A c \in CallsOf({"set"}) :
        calls[c].returned = "promise" =>
            LET a      == calls[c].args
                fs     == GivenFields(c)
                e      == GivenOption(c, "expire")
                hasEX  == e.t = "number" /\ e.n > 0
                hasNX  == GivenOption(c, "onlyIfNotExists") = Bool(TRUE)
                hasXX  == GivenOption(c, "onlyIfExists") = Bool(TRUE)
                pF     == 2 + 3 * Len(fs)
                pE     == pF + (IF hasEX THEN 2 ELSE 0)
                pN     == pE + (IF hasNX THEN 1 ELSE 0)
                pX     == pN + (IF hasXX THEN 1 ELSE 0)
            IN /\ calls[c].cmd = "SET"
               /\ Len(a) = pX + LocationLength(calls[c].params[3])
               /\ a[1] = calls[c].params[1] /\ a[2] = calls[c].params[2]
               /\ \A i \in 1..Len(fs) :
                    /\ a[3 * i] = Str("FIELD")
                    /\ a[3 * i + 1] = Str(fs[i].key)
                    /\ a[3 * i + 2] = fs[i].val
               /\ hasEX => a[pF + 1] = Str("EX") /\ a[pF + 2] = e
               /\ hasNX => a[pE + 1] = Str("NX")
               /\ hasXX => a[pN + 1] = Str("XX")
               /\ \A i \in (pF + 1)..Len(a) : a[i] # Str("FIELD")
               /\ \A i \in (pX + 1)..Len(a) : a[i] \notin {Str("EX"), Str("NX"), Str("XX")}

\* a set() with two fields, an expiry, both flags and a point was submitted
C2_Witness ==
    \E c \in CallsOf({"set"}) :
        /\ calls[c].returned = "promise"
        /\ Len(GivenFields(c)) = 2
        /\ GivenOption(c, "expire") = Num(120)
        /\ GivenOption(c, "onlyIfNotExists") = Bool(TRUE)
        /\ GivenOption(c, "onlyIfExists") = Bool(TRUE)
        /\ Len(calls[c].args) = 15

\* call c had returnProp set and its callback was given a reply and no error
RepliedProjected(c) ==
    /\ calls[c].returned = "promise"
    /\ Truthy(calls[c].returnProp)
    /\ calls[c].delivered
    /\ calls[c].cbErr = Null

ParsedReply(c) == JSONparse(calls[c].cbResult)

\* call c was rejected, once, with a ServerError carrying val, or the generic
\* message and the raw reply
RejectedServerError(c, verbatim, val) ==
    /\ calls[c].settles = 1
    /\ ~calls[c].escaped
    /\ calls[c].outcome.how = "rejected"
    /\ calls[c].outcome.kind = "ServerError"
    /\ IF verbatim
       THEN calls[c].outcome.text = "" /\ calls[c].outcome.val = val
       ELSE /\ calls[c].outcome.text = "unexpected response: "
            /\ calls[c].outcome.raw = calls[c].cbResult

\* C3, as stated: a reply that parses as JSON and whose ok is falsy rejects the
\* projected call with ServerError, carrying err verbatim when err is present and
\* the generic message with the raw reply otherwise.
C3_FalsyOkIsServerError ==
    \A c \in CallIds :
        (RepliedProjected(c) /\ ~ParsedReply(c).threw) =>
            LET res == ParsedReply(c).val
            IN ~Truthy(GetProp(res, "ok")) =>
                 RejectedServerError(c, HasProp(res, "err"), GetProp(res, "err"))

\* C3, amended: a reply that parses as JSON to a value other than null and whose
\* ok is falsy rejects the projected call with ServerError, carrying err verbatim
\* when err is truthy and the generic message with the raw reply otherwise (err
\* absent, empty or otherwise falsy).
C3_FalsyOkOfNonNullIsServerError ==
    \A c \in CallIds :
        (RepliedProjected(c) /\ ~ParsedReply(c).threw) =>
            LET res == ParsedReply(c).val
            IN (res # Null /\ ~Truthy(GetProp(res, "ok"))) =>
                 RejectedServerError(c, Truthy(GetProp(res, "err")), GetProp(res, "err"))

\* a projected call answered {"ok":false,"err":"invalid command"} was rejected
\* with "invalid command"
C3_Witness ==
    \E c \in CallIds :
        /\ RepliedProjected(c)
        /\ calls[c].cbResult = ReplyErr
        /\ calls[c].outcome.how = "rejected"
        /\ calls[c].outcome.val = Str("invalid command")

\* C4: a reply that is not valid JSON rejects the projected call, once, with
\* MalformedResponse carrying the raw reply; nothing escapes the callback.
C4_NonJsonIsMalformedResponse ==
    \A c \in CallIds :
        (RepliedProjected(c) /\ ParsedReply(c).threw) =>
            /\ calls[c].settles = 1
            /\ ~calls[c].escaped
            /\ calls[c].outcome.how = "rejected"
            /\ calls[c].outcome.kind = "MalformedResponse"
            /\ calls[c].outcome.text = "unable to parse response: "
            /\ calls[c].outcome.raw = calls[c].cbResult

\* a call with returnProp set was answered with a bare OK and rejected
C4_Witness ==
    \E c \in CallsOf({"ping", "gc", "get", "scan"}) :
        /\ RepliedProjected(c)
        /\ calls[c].cbResult = ReplyBare
        /\ calls[c].outcome.how = "rejected"

\* C5: an envelope whose ok is truthy resolves a call with returnProp 1 with an
\* object that has no ok and no elapsed key and every other key of the envelope,
\* and no more, with its value.
C5_FullEnvelopeMinusMeta ==
    \A c \in CallIds :
        (RepliedProjected(c) /\ calls[c].returnProp = Num(1) /\ ~ParsedReply(c).threw) =>
            LET res == ParsedReply(c).val
                v   == calls[c].outcome.val
            IN (res # Null /\ Truthy(GetProp(res, "ok"))) =>
                /\ calls[c].settles = 1
                /\ calls[c].outcome.how = "resolved"
                /\ v.t = "object"
                /\ ~HasProp(v, "ok") /\ ~HasProp(v, "elapsed")
                /\ \A i \in 1..Len(res.props) :
                      res.props[i].key \notin {"ok", "elapsed"} =>
                          /\ HasProp(v, res.props[i].key)
                          /\ GetProp(v, res.props[i].key) = res.props[i].val
                /\ \A i \in 1..Len(v.props) : HasProp(res, v.props[i].key)

\* a get() was resolved with the object and the fields of a reply that carried
\* ok and elapsed
C5_Witness ==
    \E c \in CallsOf({"get"}) :
        /\ calls[c].cbResult = ReplyObject
        /\ calls[c].outcome.how = "resolved"
        /\ Len(calls[c].outcome.val.props) = 2
        /\ GetProp(calls[c].outcome.val, "fields") = Obj(<<Prop("speed", Num(10))>>)

\* C6: a call made without returnProp (quit, the constructor's OUTPUT) whose
\* callback is given a reply and no error resolves, once, with that raw reply.
C6_RawReplyResolvesUnparsed ==
    \A c \in CallsOf({"quit", "constructor"}) :
        (calls[c].delivered /\ calls[c].cbErr = Null) =>
            /\ calls[c].settles = 1
            /\ ~calls[c].escaped
            /\ calls[c].outcome.how = "resolved"
            /\ calls[c].outcome.kind = "Raw"
            /\ calls[c].outcome.raw = calls[c].cbResult

\* quit() was answered with a failure envelope and the constructor's OUTPUT with
\* text that is not JSON
C6_Witness ==
    /\ \E c \in CallsOf({"quit"}) : calls[c].delivered /\ calls[c].cbResult = ReplyErr
    /\ \E c \in CallsOf({"constructor"}) : calls[c].delivered /\ calls[c].cbResult = ReplyBare

\* call c's promise is pending before its callback runs, and is settled exactly
\* once by it: resolved, or rejected with one of the three kinds, a driver error
\* being passed on as it is
SettledByCallback(c) ==
    /\ ~calls[c].delivered => calls[c].settles = 0 /\ calls[c].outcome.how = "pending"
    /\ calls[c].delivered =>
        /\ calls[c].settles = 1
        /\ ~calls[c].escaped
        /\ calls[c].outcome.how \in {"resolved", "rejected"}
        /\ calls[c].outcome.how = "rejected" =>
             calls[c].outcome.kind \in {"TransportError", "MalformedResponse", "ServerError"}
        /\ calls[c].cbErr # Null <=>
             (calls[c].outcome.how = "rejected" /\ calls[c].outcome.kind = "TransportError")
        /\ calls[c].cbErr # Null => calls[c].outcome.val = calls[c].cbErr

\* C7, as stated: every facade call returns a promise and submits at most one
\* command, and every error is a rejection of that promise, settled exactly once.
C7_EveryErrorRejectsThePromise ==
    \A c \in CallIds : SubmittedOnce(c) /\ SettledByCallback(c)

\* C7, amended: InvalidArgument is thrown by set() itself, which then returns no
\* promise and submits nothing; every other call returns a promise and submits
\* exactly one command, and its promise is settled exactly once by its callback,
\* resolved or rejected with TransportError (the driver's error, unchanged),
\* MalformedResponse or ServerError.
C7_ErrorsThrownOrRejected ==
    \A c \in CallIds :
        \/ /\ calls[c].method = "set"
           /\ FailedInvalidArgument(c)
           /\ ~calls[c].delivered /\ calls[c].settles = 0
        \/ SubmittedOnce(c) /\ SettledByCallback(c)

\* a set() has thrown, a call was rejected with the driver's error and another
\* with the server's
C7_Witness ==
    /\ \E c \in CallIds : calls[c].returned = "threw"
    /\ \E c \in CallIds : calls[c].outcome.kind = "TransportError"
    /\ \E c \in CallIds : calls[c].outcome.kind = "ServerError"

\* what a method of the interleaving specification submits for these parameters
OwnCommand(method, params) ==
    CASE method = "constructor" -> ConstructorCommands[1]
      [] method = "ping" -> ping
      [] method = "quit" -> quit
      [] method = "get"  -> get(params[1], params[2], params[3])
      [] method = "set"  -> set(params[1], params[2], params[3], params[4], params[5])

\* the settlement of call c is the one its own returnProp and the err and result
\* given to its own callback determine; its command the one its own parameters do
OwnOutcome(c) ==
    LET own == OwnCommand(calls[c].method, calls[c].params)
        r   == OnReply(own.returnProp, calls[c].cbErr, calls[c].cbResult)
    IN /\ calls[c].cmd = own.cmd /\ calls[c].args = own.args
       /\ calls[c].returned = "promise" => SubmittedOnce(c)
       /\ calls[c].delivered =>
            /\ calls[c].settles = Len(r.settle)
            /\ r.settle # <<>> /\ calls[c].outcome = Head(r.settle)

\* a step touches one call: it adds a call, or it settles one pending call, and
\* leaves every other call, every command submitted and the client as they were
OneCallPerStep ==
    /\ Len(calls') >= Len(calls)
    /\ \A c \in CallIds :
         \/ calls'[c] = calls[c]
         \/ /\ ~calls[c].delivered /\ calls'[c].delivered
            /\ Len(calls') = Len(calls)
            /\ \A d \in CallIds \ {c} : calls'[d] = calls[d]
    /\ SubSeq(sent', 1, Len(sent)) = sent
    /\ constructed => (constructed' /\ client' = client /\ debug' = debug)

Forced(opts, type) == SetProp(Default(opts, Obj(<<>>)), "type", Str(type))

\* C9: getPoint, getBounds and getHash submit the GET that get() submits for the
\* same key, id and options with type forced to POINT, BOUNDS and HASH, the
\* options omitted included: getHash(key, id) carries the HASH token.
C9_ShortcutsForceTheType ==
    \A c \in CallsOf({"getPoint", "getBounds", "getHash"}) :
        LET type == CASE calls[c].method = "getPoint"  -> "POINT"
                      [] calls[c].method = "getBounds" -> "BOUNDS"
                      [] calls[c].method = "getHash"   -> "HASH"
            p == calls[c].params
        IN /\ calls[c].cmd = "GET"
           /\ calls[c].args = get(p[1], p[2], Forced(p[3], type)).args
           /\ \E i \in 1..Len(calls[c].args) : calls[c].args[i] = Str(type)

\* C10: the first command submitted on a client is OUTPUT json, submitted by the
\* constructor without returnProp, and it is the only OUTPUT: every other
\* command, and so every command whose reply is parsed, comes after it.
C10_OutputJsonIsSubmittedFirst ==
    /\ ~constructed => sent = <<>>
    /\ constructed =>
        /\ Len(sent) >= 1
        /\ sent[1].cmd = "OUTPUT" /\ sent[1].args = <<Str("json")>>
        /\ calls[sent[1].call].method = "constructor"
        /\ ~Truthy(calls[sent[1].call].returnProp)
        /\ \A i \in 2..Len(sent) :
             /\ sent[i].cmd # "OUTPUT"
             /\ calls[sent[i].call].method # "constructor"
             /\ sent[i].call > sent[1].call

\* two facade calls were submitted, one of them with its reply parsed
C10_Witness ==
    /\ Len(sent) = 3
    /\ \E i \in 2..3 : Truthy(calls[sent[i].call].returnProp)

=============================================================================
